---------------------------- MODULE Spec2Model ----------------------------
(***************************************************************************)
(* FilePurger: the configuration-driven engine (auto_purge.py) and the     *)
(* hard-coded engine (safe_purge.py), on one abstract Windows filesystem.  *)
(*                                                                         *)
(* A directory is the sequence of its path segments, the drive first       *)
(* (<<"C:", "Data">> is C:\Data).  A file is [dir, stem, ext]: the         *)
(* directory it lies in and the two halves os.path.splitext / Path.stem,   *)
(* Path.suffix cut its name into.                                          *)
(***************************************************************************)
EXTENDS Integers, Sequences, FiniteSets, TLC

VARIABLES
    engine,        \* which script this machine runs: "auto" | "safe"
    configFile,    \* config.json as written by the user (auto_purge)
    args,          \* command line of safe_purge: categories, retention_days, dry_run
    now,           \* the clock, in seconds (time.time())
    dirs,          \* the directories that exist
    files,         \* file |-> [mtime, perm, kind, id] for the files that exist
    pc,            \* position of the running invocation
    cfg,           \* the configuration record load_config_or_exit returned
    EXCLUDE_DIRS,  \* run_scan's effective exclusion list
    SELECTED_EXTS, \* the active extension set
    scan_now,      \* the clock as read when the scan began
    drivesLeft,    \* drives the outer for-loop has still to walk
    walkStack,     \* os.walk's stack of directories still to list
    pendingFiles,  \* the files of the current directory not yet processed
    cur,           \* the file being moved, with the age computed for it
    clearDir,      \* clear_directory's argument
    clearItems,    \* the entries clear_directory has still to remove
    clearFailed,   \* the entries whose removal raised
    events,        \* the events of this invocation, in emission order
    prev,          \* history: what the previous dry run found and classified
    created        \* history: number of files the user created again

vars == <<engine, configFile, args, now, dirs, files, pc, cfg, EXCLUDE_DIRS,
          SELECTED_EXTS, scan_now, drivesLeft, walkStack, pendingFiles, cur,
          clearDir, clearItems, clearFailed, events, prev, created>>

scanVars == <<EXCLUDE_DIRS, SELECTED_EXTS, scan_now, drivesLeft, walkStack,
              pendingFiles, cur>>
clearVars == <<clearDir, clearItems, clearFailed>>
histVars == <<prev, created>>
inputVars == <<engine, configFile, args>>

---------------------------------------------------------------------------
(* Bounds of the model *)

MaxTicks == 1
MaxCreates == 1

(* Program constants *)

SecondsPerDay == 86400

StartClock == 2 * SecondsPerDay

---------------------------------------------------------------------------
(* Sequences and sets *)

Range(s) == {s[i] : i \in 1..Len(s)}

RECURSIVE SetToSeq(_)
SetToSeq(S) ==
    IF S = {} THEN << >>
    ELSE LET x == CHOOSE y \in S : TRUE IN <<x>> \o SetToSeq(S \ {x})

Prefixes(p) == {SubSeq(p, 1, n) : n \in 1..Len(p)}

IsPrefix(p, q) == Len(p) <= Len(q) /\ SubSeq(q, 1, Len(p)) = p

---------------------------------------------------------------------------
(* Names and paths *)

NoDir == << >>
NoFile == [dir |-> NoDir, stem |-> "", ext |-> ""]

FileAt(d, stem, ext) == [dir |-> d, stem |-> stem, ext |-> ext]

\* str.lower() on the extensions the model uses
Lower(e) ==
    CASE e = ".PDF" -> ".pdf"
      [] e = ".PNG" -> ".png"
      [] OTHER -> e

\* os.path.splitdrive(p)[0]
splitdrive(p) == IF p = << >> THEN "" ELSE Head(p)

\* str(path): every directory segment followed by the separator, then the name
RECURSIVE JoinSegs(_)
JoinSegs(p) == IF p = << >> THEN "" ELSE Head(p) \o "\\" \o JoinSegs(Tail(p))

PathStr(f) == JoinSegs(f.dir) \o f.stem \o f.ext

HexDigits == <<"0", "1", "2", "3", "4", "5", "6", "7",
               "8", "9", "a", "b", "c", "d", "e", "f">>

\* A truncated digest: a fixed function of the string that is not injective.
short_hash(s) == HexDigits[(Len(s) % 16) + 1]

same_drive(p1, p2) == splitdrive(p1) = splitdrive(p2)

\* os.path.commonpath of two absolute paths of one drive
RECURSIVE commonpath(_, _)
commonpath(p, q) ==
    IF p = << >> \/ q = << >> \/ Head(p) # Head(q) THEN << >>
    ELSE <<Head(p)>> \o commonpath(Tail(p), Tail(q))

is_under(path, prefix) ==
    /\ same_drive(path, prefix)
    /\ commonpath(path, prefix) = prefix

should_exclude_dir(root, exclude_dirs) ==
    \E ex \in exclude_dirs : is_under(root, ex)

DriveLetter(drive) ==
    CASE drive = "C:" -> "C"
      [] drive = "D:" -> "D"
      [] OTHER -> "ROOT"

build_quarantine_dest(quarantine_root, src_path) ==
    LET drive == splitdrive(src_path.dir)
        drive_letter == DriveLetter(drive)
        rel_parent == Tail(src_path.dir)
        base == src_path.stem
        ext == src_path.ext
    IN [dir |-> quarantine_root \o <<drive_letter>> \o rel_parent,
        stem |-> base \o "__" \o short_hash(PathStr(src_path)),
        ext |-> ext]

\* os.path.abspath on an absolute path: the "." segments dropped
abspath(p) == LET Real(seg) == seg # "." IN SelectSeq(p, Real)

---------------------------------------------------------------------------
(* The filesystem *)

DriveC == <<"C:">>
DriveD == <<"D:">>
DataDir == <<"C:", "Data">>
ProgramDataDir == <<"C:", "FilePurger">>

AllDrives == <<"C:", "D:">>

\* Files the user keeps on the machine
UserDoc == FileAt(DataDir, "x", ".pdf")
UserScan == FileAt(DriveD, "x", ".PDF")

\* The modification times a file may start with: older than a day, exactly a
\* day old, and written this second.
MTimes == {StartClock - SecondsPerDay - 1, StartClock - SecondsPerDay, StartClock}

Meta(mtime, perm, kind, id) == [mtime |-> mtime, perm |-> perm, kind |-> kind, id |-> id]

UserDocStates ==
    {Meta(t, "ok", "file", 1) : t \in MTimes}
    \cup {Meta(StartClock - SecondsPerDay - 1, p, "file", 1) : p \in {"denied", "error"}}

ChildrenOf(d) == {c \in dirs : Len(c) = Len(d) + 1 /\ IsPrefix(d, c)}

FilesIn(d, fs) == {f \in DOMAIN fs : f.dir = d}

FilesUnder(d, fs) == {f \in DOMAIN fs : IsPrefix(d, f.dir)}

DirsUnder(d) == {c \in dirs : IsPrefix(d, c)}

Without(fs, gone) == [f \in DOMAIN fs \ gone |-> fs[f]]

With(fs, f, meta) == [g \in DOMAIN fs \cup {f} |-> IF g = f THEN meta ELSE fs[g]]

\* Existing drive roots, in the order of the alphabet
list_fixed_drives ==
    LET Exists(d) == <<d>> \in dirs IN SelectSeq(AllDrives, Exists)

---------------------------------------------------------------------------
(* Inputs: config.json (auto_purge) and the command line (safe_purge) *)

CategoryChoices ==
    { [documents |-> {".PDF"}],
      [images |-> {".png"}, all |-> {".pdf"}] }

ExcludeChoices == { {}, {<<"C:", "Data", ".">>}, {DriveD} }

ConfigFiles ==
    [PROGRAM_DATA_DIR : {ProgramDataDir},
     EXCLUDE_DIRS : ExcludeChoices,
     FILE_CATEGORIES : CategoryChoices,
     retention_days : {0, 1},
     dry_run : BOOLEAN,
     AutoDelete : BOOLEAN]

NoConfig ==
    [PROGRAM_DATA_DIR |-> ProgramDataDir, EXCLUDE_DIRS |-> {},
     FILE_CATEGORIES |-> [documents |-> {}], retention_days |-> 0,
     dry_run |-> TRUE, AutoDelete |-> FALSE]

ArgChoices ==
    [categories : { {"documents"}, {"videos", "notes"} },
     retention_days : {0, 1},
     dry_run : BOOLEAN]

NoArgs == [categories |-> {}, retention_days |-> 0, dry_run |-> TRUE]

---------------------------------------------------------------------------
(* Events *)

Ev(tag, f, age, dest, op) == [tag |-> tag, file |-> f, age |-> age, dest |-> dest, op |-> op]

ScanEvent(root) == Ev("SCAN", FileAt(root, "", ""), 0, NoFile, "")

FileTags == {"MATCH", "SKIP", "MOVE", "GONE", "DENIED", "ERROR"}

Tagged(tag) == {events[i].file : i \in {j \in 1..Len(events) : events[j].tag = tag}}

\* The classification events of an event log, as a set
Classification(log) ==
    {<<log[i].file, log[i].tag>> : i \in {j \in 1..Len(log) : log[j].tag \in {"MATCH", "SKIP"}}}

NoPrev == [valid |-> FALSE, class |-> {}, ref |-> 0, files |-> << >>, start |-> << >>]

NoCur == [file |-> NoFile, age |-> 0, dest |-> NoFile]

---------------------------------------------------------------------------
(* The state before the first invocation *)

Init ==
    /\ engine \in {"auto", "safe"}
    /\ configFile \in (IF engine = "auto" THEN ConfigFiles ELSE {NoConfig})
    /\ args \in (IF engine = "safe" THEN ArgChoices ELSE {NoArgs})
    /\ now = StartClock
    /\ dirs = {DriveC, DriveD, DataDir}
    /\ \E m \in UserDocStates :
          files = (UserDoc :> m)
                  @@ (UserScan :> Meta(StartClock - SecondsPerDay - 1, "ok", "file", 2))
    /\ pc = "idle"
    /\ cfg = NoConfig
    /\ EXCLUDE_DIRS = {}
    /\ SELECTED_EXTS = {}
    /\ scan_now = 0
    /\ drivesLeft = << >>
    /\ walkStack = << >>
    /\ pendingFiles = << >>
    /\ cur = NoCur
    /\ clearDir = NoDir
    /\ clearItems = << >>
    /\ clearFailed = {}
    /\ events = << >>
    /\ prev = NoPrev
    /\ created = 0

---------------------------------------------------------------------------
(* auto_purge.py: configuration *)

\* The "all" category load_config_or_exit builds
AllExts(categories) ==
    UNION { {Lower(ext) : ext \in categories[c]} : c \in DOMAIN categories }

load_config(raw) ==
    [raw EXCEPT !.FILE_CATEGORIES =
        [c \in DOMAIN raw.FILE_CATEGORIES \cup {"all"} |->
            IF c = "all" THEN AllExts(raw.FILE_CATEGORIES)
            ELSE raw.FILE_CATEGORIES[c]]]

LoadConfig ==
    /\ engine = "auto"
    /\ pc \in {"idle", "Completed"}
    /\ cfg' = load_config(configFile)
    /\ pc' = "Loaded"
    /\ UNCHANGED <<inputVars, now, dirs, files, scanVars, clearVars, events, histVars>>

---------------------------------------------------------------------------
(* auto_purge.py: run_scan *)

PROGRAM_DATA_DIR == IF engine = "auto" THEN cfg.PROGRAM_DATA_DIR ELSE ProgramDataDir
QUARANTINE_DIR == PROGRAM_DATA_DIR \o <<"Quarantine">>
LOGS_DIR == PROGRAM_DATA_DIR \o <<IF engine = "auto" THEN "Logs" ELSE "logs">>

ScanLog == FileAt(LOGS_DIR, "scan_log", ".log")
MoveLog == FileAt(LOGS_DIR, "move_log", ".log")

\* The two log files an invocation opens for writing
setup_loggers(fs) ==
    With(With(fs, ScanLog, Meta(now, "ok", "file", 0)), MoveLog, Meta(now, "ok", "file", 0))

\* The files outside the program's own directory
UserFiles(fs) == Without(fs, FilesUnder(PROGRAM_DATA_DIR, fs))

DryRun == IF engine = "auto" THEN cfg.dry_run ELSE args.dry_run

\* History for the comparison of two successive dry runs: the user's files as
\* the run now starting finds them, and what the run before it found,
\* classified and took for its reference time.
Remember ==
    /\ prev' = IF DryRun
               THEN [valid |-> events # << >>, class |-> Classification(events),
                     ref |-> scan_now, files |-> prev.start,
                     start |-> UserFiles(files)]
               ELSE NoPrev
    /\ UNCHANGED created

\* Variant: the program's own directories are not added
UserExcludesOnly(user_dirs) == {abspath(d) : d \in user_dirs}

\* Effective excludes: user-provided + our own (Quarantine, Logs, data directory)
EffectiveExcludes(user_dirs) ==
    {abspath(d) : d \in user_dirs} \cup {QUARANTINE_DIR, LOGS_DIR, PROGRAM_DATA_DIR}

StartScan ==
    /\ engine = "auto"
    /\ pc = "Loaded"
    /\ dirs' = dirs \cup Prefixes(QUARANTINE_DIR) \cup Prefixes(LOGS_DIR)
    /\ files' = setup_loggers(files)
    /\ EXCLUDE_DIRS' = EffectiveExcludes(cfg.EXCLUDE_DIRS)
    /\ SELECTED_EXTS' = cfg.FILE_CATEGORIES["all"]
    /\ scan_now' = now
    /\ drivesLeft' = list_fixed_drives
    /\ walkStack' = << >>
    /\ pendingFiles' = << >>
    /\ cur' = NoCur
    /\ events' = <<Ev("START", NoFile, 0, NoFile, "")>>
    /\ clearDir' = NoDir
    /\ clearItems' = << >>
    /\ clearFailed' = {}
    /\ Remember
    /\ pc' = "Traversing"
    /\ UNCHANGED <<inputVars, now, cfg>>

\* for drive in list_fixed_drives(): os.walk(drive) starts at the drive's root
NextDrive ==
    /\ pc = "Traversing"
    /\ walkStack = << >>
    /\ pendingFiles = << >>
    /\ drivesLeft # << >>
    /\ walkStack' = << <<Head(drivesLeft)>> >>
    /\ drivesLeft' = Tail(drivesLeft)
    /\ UNCHANGED <<inputVars, now, dirs, files, pc, cfg, EXCLUDE_DIRS, SELECTED_EXTS,
                   scan_now, pendingFiles, cur, clearVars, events, histVars>>

\* The subdirectories of root that survive the pruning
KeptDirs(root) == {d \in ChildrenOf(root) : ~should_exclude_dir(d, EXCLUDE_DIRS)}

\* One iteration of os.walk: list root, prune its subdirectories, log it
VisitDir ==
    /\ engine = "auto"
    /\ pc = "Traversing"
    /\ pendingFiles = << >>
    /\ walkStack # << >>
    /\ LET root == Head(walkStack) IN
          /\ walkStack' = SetToSeq(KeptDirs(root)) \o Tail(walkStack)
          /\ pendingFiles' = SetToSeq(FilesIn(root, files))
          /\ events' = Append(events, ScanEvent(root))
    /\ UNCHANGED <<inputVars, now, dirs, files, pc, cfg, EXCLUDE_DIRS, SELECTED_EXTS,
                   scan_now, drivesLeft, cur, clearVars, histVars>>

age_days(mtime) == (now - mtime) \div SecondsPerDay

\* The event os.path.getmtime's exception is logged as; "" when it returns
StatFailure(f) ==
    IF f \notin DOMAIN files THEN "GONE"
    ELSE IF files[f].perm = "denied" THEN "DENIED"
    ELSE IF files[f].perm = "error" THEN "ERROR"
    ELSE ""

\* time.time() - retention_days * 86400, with the time read when the scan began
cutoff_epoch == scan_now - (cfg.retention_days * SecondsPerDay)

\* Variant: the comparison turned round
QualifiesNewer(mtime) == mtime >= cutoff_epoch

Qualifies(mtime) == mtime < cutoff_epoch

\* Variant: only FileNotFoundError is handled
CaughtOnlyGone == {"GONE"}

\* The exceptions of os.path.getmtime that the loop body handles
CaughtAtStat == {"GONE", "DENIED", "ERROR"}

\* Variant: the dry_run flag is not consulted
ShouldMoveAlways == TRUE

\* "if not cfg['dry_run']"
ShouldMove == ~cfg.dry_run

\* The body of "for fname in files" up to the move
ProcessFile ==
    /\ engine = "auto"
    /\ pc = "Traversing"
    /\ pendingFiles # << >>
    /\ LET fpath == Head(pendingFiles)
           ext == Lower(fpath.ext)
       IN
          IF ext \notin SELECTED_EXTS
          THEN /\ pendingFiles' = Tail(pendingFiles)
               /\ UNCHANGED <<events, cur, pc>>
          ELSE IF StatFailure(fpath) # "" /\ StatFailure(fpath) \notin CaughtAtStat
          THEN /\ pc' = "Raised"
               /\ UNCHANGED <<events, pendingFiles, cur>>
          ELSE IF StatFailure(fpath) # ""
          THEN /\ events' = Append(events, Ev(StatFailure(fpath), fpath, 0, NoFile, "stat"))
               /\ pendingFiles' = Tail(pendingFiles)
               /\ UNCHANGED <<cur, pc>>
          ELSE LET mtime == files[fpath].mtime
                   age == age_days(mtime)
               IN IF Qualifies(mtime)
                  THEN /\ events' = Append(events, Ev("MATCH", fpath, age, NoFile, ""))
                       /\ IF ShouldMove
                          THEN /\ cur' = [file |-> fpath, age |-> age, dest |-> NoFile]
                               /\ pc' = "Moving"
                               /\ UNCHANGED pendingFiles
                          ELSE /\ pendingFiles' = Tail(pendingFiles)
                               /\ UNCHANGED <<cur, pc>>
                  ELSE /\ events' = Append(events, Ev("SKIP", fpath, age, NoFile, ""))
                       /\ pendingFiles' = Tail(pendingFiles)
                       /\ UNCHANGED <<cur, pc>>
    /\ UNCHANGED <<inputVars, now, dirs, files, cfg, EXCLUDE_DIRS, SELECTED_EXTS,
                   scan_now, drivesLeft, walkStack, clearVars, histVars>>

\* What shutil.move(fpath, dest) can do once the destination's parents exist.
\* Across drives it copies and then unlinks the source, and the unlink may fail.
MoveOutcomes(fpath, dest) ==
    IF fpath \notin DOMAIN files THEN {"error"}
    ELSE {"ok", "denied", "error"}
         \cup (IF same_drive(fpath.dir, dest.dir) THEN {} ELSE {"copied"})

\* Variant: the file is copied and the source left behind
MovedKeepsSource(fs, fpath, dest, outcome) ==
    IF outcome \in {"ok", "copied"} THEN With(fs, dest, fs[fpath]) ELSE fs

\* The filesystem after shutil.move: an existing destination file is replaced.
Moved(fs, fpath, dest, outcome) ==
    CASE outcome = "ok" -> With(Without(fs, {fpath}), dest, fs[fpath])
      [] outcome = "copied" -> With(fs, dest, fs[fpath])
      [] OTHER -> fs

\* build_quarantine_dest, mkdir of the parents, shutil.move and its handlers
MoveFile ==
    /\ engine = "auto"
    /\ pc = "Moving"
    /\ LET fpath == cur.file
           dest == build_quarantine_dest(QUARANTINE_DIR, fpath)
       IN \E outcome \in MoveOutcomes(fpath, dest) :
             /\ dirs' = dirs \cup Prefixes(dest.dir)
             /\ files' = Moved(files, fpath, dest, outcome)
             /\ IF outcome = "ok"
                THEN /\ cur' = [cur EXCEPT !.dest = dest]
                     /\ pc' = "Moved"
                     /\ UNCHANGED <<events, pendingFiles>>
                ELSE /\ events' = Append(events,
                            Ev(IF outcome = "error" THEN "ERROR" ELSE "DENIED",
                               fpath, 0, NoFile, "move"))
                     /\ pendingFiles' = Tail(pendingFiles)
                     /\ cur' = NoCur
                     /\ pc' = "Traversing"
    /\ UNCHANGED <<inputVars, now, cfg, EXCLUDE_DIRS, SELECTED_EXTS, scan_now,
                   drivesLeft, walkStack, clearVars, histVars>>

\* move_logger.info("[MOVE] ..."), after shutil.move has returned
LogMove ==
    /\ pc = "Moved"
    /\ events' = Append(events, Ev("MOVE", cur.file, cur.age, cur.dest, ""))
    /\ pendingFiles' = Tail(pendingFiles)
    /\ cur' = NoCur
    /\ pc' = "Traversing"
    /\ UNCHANGED <<inputVars, now, dirs, files, cfg, EXCLUDE_DIRS, SELECTED_EXTS,
                   scan_now, drivesLeft, walkStack, clearVars, histVars>>

---------------------------------------------------------------------------
(* auto_purge.py: clear_directory *)

FileItem(f) == [file |-> f, dir |-> NoDir]
DirItem(d) == [file |-> NoFile, dir |-> d]

\* os.listdir(directory_path)
listdir(d) ==
    SetToSeq({FileItem(f) : f \in FilesIn(d, files)})
    \o SetToSeq({DirItem(c) : c \in ChildrenOf(d)})

\* The head of clear_directory: the isdir test and the listing
ClearBegin(directory_path) ==
    IF directory_path \notin dirs
    THEN /\ pc' = "Raised"
         /\ UNCHANGED clearVars
    ELSE /\ clearDir' = directory_path
         /\ clearItems' = listdir(directory_path)
         /\ clearFailed' = {}
         /\ pc' = "Reclaiming"

\* What removing one entry can do: [failed, gone], the files it took away.
\* shutil.rmtree stops at its first error, with any part of the tree removed.
RemovalOutcomes(item) ==
    IF item.dir = NoDir
    THEN IF item.file \in DOMAIN files
         THEN {[failed |-> FALSE, gone |-> {item.file}], [failed |-> TRUE, gone |-> {}]}
         ELSE {[failed |-> FALSE, gone |-> {}]}
    ELSE {[failed |-> FALSE, gone |-> FilesUnder(item.dir, files)]}
         \cup {[failed |-> TRUE, gone |-> g] : g \in SUBSET FilesUnder(item.dir, files)}

\* Variant: the first failure ends the loop
AfterRemovalAbort(out) == IF out.failed THEN << >> ELSE Tail(clearItems)

\* The entries still to visit after one entry's removal: its exception is
\* caught inside the loop
AfterRemoval(out) == Tail(clearItems)

\* One iteration of "for item in os.listdir(directory_path)"
ClearItem ==
    /\ pc = "Reclaiming"
    /\ clearItems # << >>
    /\ LET item == Head(clearItems) IN
       \E out \in RemovalOutcomes(item) :
          /\ files' = Without(files, out.gone)
          /\ dirs' = IF item.dir # NoDir /\ ~out.failed
                     THEN dirs \ DirsUnder(item.dir) ELSE dirs
          /\ clearFailed' = IF out.failed THEN clearFailed \cup {item} ELSE clearFailed
          /\ clearItems' = AfterRemoval(out)
    /\ UNCHANGED <<inputVars, now, pc, cfg, scanVars, clearDir, events, histVars>>

ClearDone ==
    /\ pc = "Reclaiming"
    /\ clearItems = << >>
    /\ pc' = "Completed"
    /\ UNCHANGED <<inputVars, now, dirs, files, cfg, scanVars, clearVars, events, histVars>>

\* The end of run_scan: the END line, then clear_directory when AutoDelete is set
EndScan ==
    /\ engine = "auto"
    /\ pc = "Traversing"
    /\ walkStack = << >>
    /\ pendingFiles = << >>
    /\ drivesLeft = << >>
    /\ events' = Append(events, Ev("END", NoFile, 0, NoFile, ""))
    /\ IF cfg.AutoDelete
       THEN ClearBegin(QUARANTINE_DIR)
       ELSE pc' = "Completed" /\ UNCHANGED clearVars
    /\ UNCHANGED <<inputVars, now, dirs, files, cfg, scanVars, histVars>>

---------------------------------------------------------------------------
(* safe_purge.py *)

SAFE_FILE_CATEGORIES ==
    [documents |-> {".doc", ".docx", ".xls", ".xlsx", ".ppt", ".pptx", ".pdf", ".csv", ".rtf"},
     videos |-> {".mp4", ".avi", ".mov", ".mkv", ".wmv", ".m4v", ".3gp", ".flv", ".webm"},
     images |-> {".jpg", ".jpeg", ".png", ".gif", ".bmp", ".tiff", ".webp"},
     archives |-> {".zip", ".rar", ".7z", ".tar", ".gz"}]

SAFE_EXCLUDE_DIRS ==
    { <<"C:", "Windows">>, <<"C:", "Program Files">>, <<"C:", "Program Files (x86)">>,
      <<"C:", "ProgramData">>, <<"C:", "Users", "All Users">>, <<"C:", "$Recycle.Bin">>,
      <<"C:", "System Volume Information">>, <<"D:", "Program Files">>,
      <<"D:", "Program Files (x86)">>, <<"E:", "Program Files">>,
      <<"E:", "Program Files (x86)">>, <<"C:", "FilePurger">> }

is_excluded(path) ==
    \E excl \in EXCLUDE_DIRS :
        same_drive(abspath(path), excl) /\ commonpath(abspath(path), excl) = excl

\* extensions.extend(FILE_CATEGORIES.get(cat, [])) for every requested category
SafeExtensions(categories) ==
    UNION {SAFE_FILE_CATEGORIES[c] : c \in categories \cap DOMAIN SAFE_FILE_CATEGORIES}

\* not (extensions and not file.lower().endswith(tuple(extensions)))
SafeSelected(f) == SELECTED_EXTS = {} \/ Lower(f.ext) \in SELECTED_EXTS

\* os.path.join(QUARANTINE_DIR, os.path.relpath(file_path, drive))
SafeDest(f) == [f EXCEPT !.dir = QUARANTINE_DIR \o Tail(f.dir)]

\* The module's start-up (directories, log files) and the head of purge_files
SafeStart ==
    /\ engine = "safe"
    /\ pc \in {"idle", "Completed"}
    /\ dirs' = dirs \cup Prefixes(QUARANTINE_DIR) \cup Prefixes(LOGS_DIR)
    /\ files' = setup_loggers(files)
    /\ EXCLUDE_DIRS' = SAFE_EXCLUDE_DIRS
    /\ SELECTED_EXTS' = SafeExtensions(args.categories)
    /\ scan_now' = now
    /\ drivesLeft' = list_fixed_drives
    /\ walkStack' = << >>
    /\ pendingFiles' = << >>
    /\ cur' = NoCur
    /\ events' = <<Ev("USAGE", NoFile, 0, NoFile, "")>>
    /\ Remember
    /\ pc' = "Traversing"
    /\ UNCHANGED <<inputVars, now, cfg, clearVars>>

\* One iteration of os.walk in purge_files
SafeVisitDir ==
    /\ engine = "safe"
    /\ pc = "Traversing"
    /\ pendingFiles = << >>
    /\ walkStack # << >>
    /\ LET root == Head(walkStack) IN
          IF is_excluded(root)
          THEN /\ walkStack' = Tail(walkStack)
               /\ pendingFiles' = << >>
          ELSE /\ walkStack' = SetToSeq(ChildrenOf(root)) \o Tail(walkStack)
               /\ pendingFiles' = SetToSeq(FilesIn(root, files))
    /\ UNCHANGED <<inputVars, now, dirs, files, pc, cfg, EXCLUDE_DIRS, SELECTED_EXTS,
                   scan_now, drivesLeft, cur, clearVars, events, histVars>>

\* (now - mtime).days, now being the time purge_files started
SafeAge(mtime) == (scan_now - mtime) \div SecondsPerDay

SafeQualifies(mtime) == SafeAge(mtime) >= args.retention_days

\* "if not dry_run"
SafeShouldMove == ~args.dry_run

\* The body of "for file in files": the whole try block
SafeProcessFile ==
    /\ engine = "safe"
    /\ pc = "Traversing"
    /\ pendingFiles # << >>
    /\ pendingFiles' = Tail(pendingFiles)
    /\ LET f == Head(pendingFiles)
           dest == SafeDest(f)
       IN
          IF ~SafeSelected(f)
          THEN UNCHANGED <<dirs, files, events>>
          ELSE IF StatFailure(f) # ""
          THEN /\ events' = Append(events, Ev("ERROR", f, 0, NoFile, "processing"))
               /\ UNCHANGED <<dirs, files>>
          ELSE IF ~SafeQualifies(files[f].mtime)
          THEN /\ events' = Append(events, Ev("SKIP", f, SafeAge(files[f].mtime), NoFile, ""))
               /\ UNCHANGED <<dirs, files>>
          ELSE IF ~SafeShouldMove
          THEN /\ events' = Append(events, Ev("MATCH", f, SafeAge(files[f].mtime), NoFile, ""))
               /\ UNCHANGED <<dirs, files>>
          ELSE \E outcome \in MoveOutcomes(f, dest) :
                  /\ dirs' = dirs \cup Prefixes(dest.dir)
                  /\ files' = Moved(files, f, dest, outcome)
                  /\ events' = events \o
                        << Ev("MATCH", f, SafeAge(files[f].mtime), NoFile, ""),
                           IF outcome = "ok"
                           THEN Ev("MOVE", f, 0, dest, "")
                           ELSE Ev("ERROR", f, 0, NoFile, "processing") >>
    /\ UNCHANGED <<inputVars, now, pc, cfg, EXCLUDE_DIRS, SELECTED_EXTS, scan_now,
                   drivesLeft, walkStack, cur, clearVars, histVars>>

\* The closing log_disk_usage of purge_files
SafeEnd ==
    /\ engine = "safe"
    /\ pc = "Traversing"
    /\ walkStack = << >>
    /\ pendingFiles = << >>
    /\ drivesLeft = << >>
    /\ events' = Append(events, Ev("USAGE", NoFile, 0, NoFile, ""))
    /\ pc' = "Completed"
    /\ UNCHANGED <<inputVars, now, dirs, files, cfg, scanVars, clearVars, histVars>>

---------------------------------------------------------------------------
(* The environment *)

\* time.time() advances
Tick ==
    /\ engine \in {"auto", "safe"}
    /\ now < StartClock + MaxTicks
    /\ now' = now + 1
    /\ UNCHANGED <<inputVars, dirs, files, pc, cfg, scanVars, clearVars, events, histVars>>

\* Somebody removes a file between os.walk's listing and the engine reaching it
Vanish ==
    /\ pc \in {"Traversing", "Moving"}
    /\ pendingFiles # << >>
    /\ Head(pendingFiles) \in DOMAIN files
    /\ files' = Without(files, {Head(pendingFiles)})
    /\ UNCHANGED <<inputVars, now, dirs, pc, cfg, scanVars, clearVars, events, histVars>>

\* Between invocations the user puts an old document back where one was taken
CreateFile ==
    /\ pc = "Completed"
    /\ created < MaxCreates
    /\ UserDoc \notin DOMAIN files
    /\ files' = With(files, UserDoc,
                     Meta(StartClock - SecondsPerDay - 1, "ok", "file", 10 + created))
    /\ created' = created + 1
    /\ pc' = "idle"
    /\ UNCHANGED <<inputVars, now, dirs, cfg, scanVars, clearVars, events, prev>>

---------------------------------------------------------------------------
(* The specification *)

Next ==
    \/ LoadConfig
    \/ StartScan
    \/ NextDrive
    \/ VisitDir
    \/ ProcessFile
    \/ MoveFile
    \/ LogMove
    \/ EndScan
    \/ ClearItem
    \/ ClearDone
    \/ SafeStart
    \/ SafeVisitDir
    \/ SafeProcessFile
    \/ SafeEnd
    \/ Tick
    \/ Vanish
    \/ CreateFile

Spec == Init /\ [][Next]_vars

---------------------------------------------------------------------------
(* clear_directory on its own, on a directory of files, links and subtrees *)

ClearTarget == ProgramDataDir \o <<"Quarantine">>

TopEntries ==
    { FileAt(ClearTarget, "a", ".pdf"), FileAt(ClearTarget, "b", ".pdf"),
      FileAt(ClearTarget, "l", ".lnk") }

SubDir == ClearTarget \o <<"C">>

SubTrees ==
    { [dirs |-> {}, files |-> {}],
      [dirs |-> {SubDir}, files |-> {}],
      [dirs |-> {SubDir}, files |-> {FileAt(SubDir, "x", ".pdf")}],
      [dirs |-> {SubDir, SubDir \o <<"Data">>},
       files |-> {FileAt(SubDir, "x", ".pdf"), FileAt(SubDir \o <<"Data">>, "y", ".pdf")}] }

EntryMeta(f) == Meta(StartClock, "ok", IF f.ext = ".lnk" THEN "link" ELSE "file", 0)

ClearInit ==
    /\ engine = "clear"
    /\ configFile = NoConfig
    /\ args = NoArgs
    /\ now = StartClock
    /\ \/ /\ dirs = {DriveC, ProgramDataDir}
          /\ files = << >>
       \/ \E top \in SUBSET TopEntries, sub \in SubTrees :
             /\ dirs = {DriveC, ProgramDataDir, ClearTarget} \cup sub.dirs
             /\ files = [f \in top \cup sub.files |-> EntryMeta(f)]
    /\ pc = "idle"
    /\ cfg = NoConfig
    /\ EXCLUDE_DIRS = {}
    /\ SELECTED_EXTS = {}
    /\ scan_now = 0
    /\ drivesLeft = << >>
    /\ walkStack = << >>
    /\ pendingFiles = << >>
    /\ cur = NoCur
    /\ clearDir = NoDir
    /\ clearItems = << >>
    /\ clearFailed = {}
    /\ events = << >>
    /\ prev = NoPrev
    /\ created = 0

\* A caller invokes clear_directory; the history keeps the files it found
ClearCall ==
    /\ engine = "clear"
    /\ pc = "idle"
    /\ ClearBegin(ClearTarget)
    /\ prev' = [NoPrev EXCEPT !.start = files]
    /\ UNCHANGED <<inputVars, now, dirs, files, cfg, scanVars, events, created>>

ClearNext == ClearCall \/ ClearItem \/ ClearDone

ClearSpec == ClearInit /\ [][ClearNext]_vars

---------------------------------------------------------------------------
(* Properties *)

\* The events a step appends to the log
NewEvents ==
    IF Len(events') > Len(events) /\ SubSeq(events', 1, Len(events)) = events
    THEN SubSeq(events', Len(events) + 1, Len(events'))
    ELSE << >>

FileEventIndices == {i \in 1..Len(events) : events[i].tag \in FileTags}

Retention == IF engine = "auto" THEN cfg.retention_days ELSE args.retention_days

AutoDeleteOn == engine = "auto" /\ cfg.AutoDelete

Entries(d) ==
    {FileItem(f) : f \in FilesIn(d, files)} \cup {DirItem(c) : c \in ChildrenOf(d)}

\* C1: no per-file event, and so no move, concerns a file in a directory that is
\* an entry of the effective exclusion list or lies below one, the root of a
\* volume included.
C1_ExcludedNeverScanned ==
    \A i \in FileEventIndices :
        ~ \E ex \in EXCLUDE_DIRS : IsPrefix(ex, events[i].file.dir)

\* C2: a classification event is MATCH exactly when the file's mtime is strictly
\* below the scan's reference time minus retentionDays * 86400; a file modified
\* exactly that long ago is SKIP.
C2_StrictCutoff ==
    [][\A i \in 1..Len(NewEvents) :
          NewEvents[i].tag \in {"MATCH", "SKIP"} =>
             (NewEvents[i].tag = "MATCH"
                <=> files[NewEvents[i].file].mtime
                       < scan_now - (Retention * SecondsPerDay))]_vars

\* C3: in a dry run no MOVE event is emitted, and no step of the engine moves,
\* renames or deletes a file of the user: whatever files change do so by the
\* hand of somebody else.
C3_DryRunMovesNothing ==
    [][(engine \in {"auto", "safe"} /\ DryRun) =>
          /\ \A i \in 1..Len(NewEvents) : NewEvents[i].tag # "MOVE"
          /\ Vanish \/ CreateFile \/ UserFiles(files') = UserFiles(files)]_vars

C3_Witness ==
    /\ engine = "auto"
    /\ cfg.dry_run
    /\ pc = "Completed"
    /\ \E f \in Tagged("MATCH") : f \in DOMAIN files /\ f \notin Tagged("MOVE")

\* C4: in a live run of auto_purge the MOVE event of a file is written only once
\* its move has returned: MATCH is already in the log, the source path is gone and
\* the file is at its destination under the quarantine root.  A failed or denied
\* move writes no MOVE event and leaves the file where it was.
C4_MoveThenLog ==
    [][engine = "auto" =>
          /\ \A i \in 1..Len(NewEvents) :
                NewEvents[i].tag = "MOVE" =>
                   /\ pc = "Moved"
                   /\ NewEvents[i].file = cur.file
                   /\ NewEvents[i].dest = cur.dest
                   /\ cur.file \in Tagged("MATCH")
                   /\ cur.file \notin DOMAIN files
                   /\ cur.dest \in DOMAIN files
                   /\ IsPrefix(QUARANTINE_DIR, cur.dest.dir)
          /\ \A i \in 1..Len(NewEvents) :
                NewEvents[i].op = "move" =>
                   /\ pc' # "Moved"
                   /\ NewEvents[i].file \in DOMAIN files =>
                         /\ NewEvents[i].file \in DOMAIN files'
                         /\ files'[NewEvents[i].file] = files[NewEvents[i].file]
          /\ \A i \in 1..Len(events') :
                events'[i].op = "move" =>
                   \A j \in 1..Len(events') :
                      ~(events'[j].tag = "MOVE" /\ events'[j].file = events'[i].file)]_vars

C4_Witness ==
    /\ engine = "auto"
    /\ \E i \in 1..Len(events) :
          /\ events[i].tag = "MOVE"
          /\ events[i].file \notin DOMAIN files
          /\ events[i].dest \in DOMAIN files
    /\ \E i \in 1..Len(events) : events[i].op = "move" /\ events[i].file \in DOMAIN files

\* C5: without AutoDelete the quarantine tree is append-only: every file in it
\* stays in it, with the content it had, whatever the next step is.
C5_QuarantineAppendOnly ==
    [][(engine \in {"auto", "safe"} /\ ~AutoDeleteOn) =>
          \A q \in FilesUnder(QUARANTINE_DIR, files) :
             q \in DOMAIN files' /\ files'[q] = files[q]]_vars

\* C6: no per-file event and no move concerns a file under the program's own
\* quarantine or log directory, whatever the user's exclusion list is.
C6_OwnDirsNeverScanned ==
    /\ \A i \in FileEventIndices :
          /\ ~IsPrefix(QUARANTINE_DIR, events[i].file.dir)
          /\ ~IsPrefix(LOGS_DIR, events[i].file.dir)
    /\ pc \in {"Moving", "Moved"} =>
          /\ ~IsPrefix(QUARANTINE_DIR, cur.file.dir)
          /\ ~IsPrefix(LOGS_DIR, cur.file.dir)

C6_Witness ==
    /\ engine = "auto"
    /\ ~cfg.dry_run
    /\ cfg.EXCLUDE_DIRS = {}
    /\ pc = "Completed"
    /\ Tagged("MOVE") = {}
    /\ \E q \in FilesUnder(QUARANTINE_DIR, files) :
          Lower(q.ext) \in SELECTED_EXTS /\ Qualifies(files[q].mtime)

\* A step of the program, as opposed to one of its environment
EngineStep ==
    \/ StartScan \/ NextDrive \/ VisitDir \/ ProcessFile \/ MoveFile \/ LogMove
    \/ EndScan \/ ClearItem \/ ClearDone
    \/ SafeVisitDir \/ SafeProcessFile \/ SafeEnd

\* The directories os.walk reaches: no pruned directory on the way down
AutoWalked(d) ==
    /\ Head(d) \in Range(list_fixed_drives)
    /\ \A n \in 2..Len(d) : ~should_exclude_dir(SubSeq(d, 1, n), EXCLUDE_DIRS)

SafeWalked(d) ==
    /\ Head(d) \in Range(list_fixed_drives)
    /\ \A n \in 1..Len(d) : ~is_excluded(SubSeq(d, 1, n))

\* The files an invocation has to get to
Reachable(f) ==
    IF engine = "auto"
    THEN AutoWalked(f.dir) /\ Lower(f.ext) \in SELECTED_EXTS
    ELSE SafeWalked(f.dir) /\ SafeSelected(f)

C8_ClearDirectory ==
    /\ pc = "Raised" => (ClearTarget \notin dirs /\ files = prev.start)
    /\ pc \in {"Reclaiming", "Completed"} =>
          /\ clearDir = ClearTarget
          /\ clearDir \in dirs
          /\ clearFailed \subseteq Entries(clearDir)
          /\ Entries(clearDir) \subseteq clearFailed \cup Range(clearItems)
    /\ pc = "Completed" => clearItems = << >>

C8_Witness ==
    /\ engine = "clear"
    /\ pc = "Completed"
    /\ Cardinality(clearFailed) = 1
    /\ Entries(clearDir) = clearFailed
    /\ Cardinality(FilesIn(ClearTarget, prev.start)) = 3
    /\ FilesUnder(SubDir, prev.start) # {}
    /\ FilesUnder(SubDir, files) = {}

\* Two dry runs in succession over the same files, none touched in between
TwoDryRuns ==
    /\ engine \in {"auto", "safe"}
    /\ DryRun
    /\ pc = "Completed"
    /\ prev.valid
    /\ prev.files = prev.start
    /\ prev.start = UserFiles(files)

\* C9 as stated: the second of two dry runs over an untouched filesystem
\* classifies every file as the first did, the clock having advanced or not.
C9_DryRunIdempotent == TwoDryRuns => Classification(events) = prev.class

\* C9: the second of two dry runs over an untouched filesystem classifies the
\* same files; with the same reference time it classifies them the same way, and
\* with a later one every MATCH is still a MATCH, a SKIP becoming MATCH only by
\* the file's age having passed the retention.
C9_DryRunMonotone ==
    TwoDryRuns =>
       /\ {c[1] : c \in Classification(events)} = {c[1] : c \in prev.class}
       /\ scan_now = prev.ref => Classification(events) = prev.class
       /\ \A c \in prev.class : c[2] = "MATCH" => c \in Classification(events)
       /\ scan_now >= prev.ref

C9_Witness ==
    /\ TwoDryRuns
    /\ engine = "auto"
    /\ scan_now > prev.ref
    /\ \E c \in prev.class : c[2] = "MATCH"
    /\ \E c \in prev.class : c[2] = "SKIP" /\ <<c[1], "MATCH">> \in Classification(events)

\* The extensions of the categories other than "all", lowercased
OthersUnion(categories) ==
    UNION {{Lower(e) : e \in categories[k]} : k \in DOMAIN categories \ {"all"}}

\* C10: after load the "all" category is exactly the union of the lowercased
\* extensions of the other categories, a user's own "all" entry notwithstanding,
\* and a scan selects no file outside that union.
C10_AllIsUnionOfOthers ==
    (engine = "auto" /\ "all" \in DOMAIN cfg.FILE_CATEGORIES) =>
       /\ cfg.FILE_CATEGORIES["all"] = OthersUnion(cfg.FILE_CATEGORIES)
       /\ \A i \in FileEventIndices :
             Lower(events[i].file.ext) \in OthersUnion(cfg.FILE_CATEGORIES)

==========================================================================
